---- MODULE Spec2Model ----
(***************************************************************************)
(* Model of the YAML-backed authoritative DNS server: configuration       *)
(* loading and hot reload (config.py), record resolution (Config.lookup), *)
(* the per-datagram handler (protocol.py) and startup (server.py).        *)
(*                                                                         *)
(* Python values are modelled structurally.  Text is drawn from a small   *)
(* alphabet of concrete strings; the string conversions the code applies  *)
(* (strip, upper, lower, endswith, int(), DNSLabel, ipaddress) are the    *)
(* tables of what those conversions do on that alphabet.                  *)
(***************************************************************************)
EXTENDS Integers, Sequences, FiniteSets, TLC

VARIABLES phase, source, config, last, call

vars == <<phase, source, config, last, call>>

(***************************************************************************)
(* Bounds of the model.                                                    *)
(***************************************************************************)
\* longest 'records' list of a generated document
MaxRecs == 3
\* largest modification time the file system reports
MaxTime == 2

(***************************************************************************)
(* Python scalars as YAML decodes them (the operand of int()).            *)
(***************************************************************************)
IntV(n) == [tag |-> "int", n |-> n]
StrV(s) == [tag |-> "str", s |-> s]
NullV == [tag |-> "null"]

\* int(x): an int is itself, a numeric string is parsed, any other string is
\* a ValueError, None is a TypeError.
IntOf(x) ==
    CASE x.tag = "int" -> [exc |-> "none", val |-> x.n]
      [] x.tag = "str" /\ x.s = "60" -> [exc |-> "none", val |-> 60]
      [] x.tag = "str" /\ x.s # "60" -> [exc |-> "ValueError", val |-> 0]
      [] OTHER -> [exc |-> "TypeError", val |-> 0]

(***************************************************************************)
(* String conversions on the alphabet.                                     *)
(***************************************************************************)
\* str.strip()
Strip(s) ==
    CASE s = " a. " -> "a."
      [] OTHER -> s

\* str.upper() on record types
Upper(s) ==
    CASE s = "a" -> "A"
      [] s = "cname" -> "CNAME"
      [] OTHER -> s

\* str.lower() on names
Lower(s) ==
    CASE s = "A." -> "a."
      [] s = "T." -> "t."
      [] s = "A..B." -> "a..b."
      [] OTHER -> s

\* str.endswith(".")
EndsWithDot(s) == s \in {"a.", "A.", "t.", "T.", "u.", "a..b.", "A..B."}

\* DNSLabel(text) raises (UnicodeError, a ValueError) on an empty inner label
LabelOK(s) == s \notin {"a..b.", "A..B."}

\* str(DNSLabel(text)): the name with its root dot
LabelStr(s) ==
    CASE s = "t" -> "t."
      [] OTHER -> s

\* ipaddress.IPv4Address(text) / ipaddress.IPv6Address(text) accept the text
IsIPv4(s) == s \in {"1.2.3.4", "5.6.7.8"}
IsIPv6(s) == s \in {"::1"}

(***************************************************************************)
(* config.py: constants.                                                   *)
(***************************************************************************)
\* SUPPORTED_ORDER, had the order been that of the numeric QTYPE codes
SUPPORTED_ORDER_BY_CODE == <<"A", "NS", "CNAME", "PTR", "TXT", "AAAA">>

\* line 16: the stable order of QTYPE.ANY responses
SUPPORTED_ORDER == <<"A", "AAAA", "CNAME", "TXT", "NS", "PTR">>

SUPPORTED_QTYPES == {"A", "AAAA", "CNAME", "TXT", "NS", "PTR"}

\* default_ttl when the document has none (Config.__init__, Config.load)
DEFAULT_TTL == 300

(***************************************************************************)
(* records.py: Record.                                                     *)
(***************************************************************************)
Record(name, rtype, value, ttl) ==
    [name |-> name, rtype |-> rtype, value |-> value, ttl |-> ttl]

(***************************************************************************)
(* Config.load, lines 88-105: one raw entry.  Yields the Record or the    *)
(* ValueError's message kind.                                              *)
(***************************************************************************)
IsMapping(item) == "scalar" \notin DOMAIN item

ParseItem(item, default_ttl) ==
    IF ~IsMapping(item)
    THEN [err |-> "mapping required"]
    ELSE IF \/ "name" \notin DOMAIN item
            \/ "type" \notin DOMAIN item
            \/ "value" \notin DOMAIN item
    THEN [err |-> "malformed record"]
    ELSE LET name == Strip(item.name)
             rtype == Strip(Upper(item.type))
             value == Strip(item.value)
             ttl == IF "ttl" \in DOMAIN item
                    THEN IntOf(item.ttl)
                    ELSE [exc |-> "none", val |-> default_ttl]
         IN  IF ttl.exc # "none"
             THEN [err |-> "malformed record"]
             ELSE IF ~EndsWithDot(name)
             THEN [err |-> "name must end with '.'"]
             ELSE IF rtype \notin SUPPORTED_QTYPES
             THEN [err |-> "unsupported type"]
             ELSE [err |-> "none", rec |-> Record(name, rtype, value, ttl.val)]

\* Config.load, lines 88-105: the loop over enumerate(raw, 1).  Stops at the
\* first rejected entry with its 1-based ordinal.
RECURSIVE ParseFrom(_, _, _, _)
ParseFrom(raw, i, recs, default_ttl) ==
    IF i > Len(raw)
    THEN [err |-> "none", ordinal |-> 0, recs |-> recs]
    ELSE LET p == ParseItem(raw[i], default_ttl)
         IN  IF p.err # "none"
             THEN [err |-> p.err, ordinal |-> i, recs |-> recs]
             ELSE ParseFrom(raw, i + 1, Append(recs, p.rec), default_ttl)

\* ParseRecords, had the loop logged and skipped a rejected entry
RECURSIVE ParseSkipping(_, _, _, _)
ParseSkipping(raw, i, recs, default_ttl) ==
    IF i > Len(raw)
    THEN [err |-> "none", ordinal |-> 0, recs |-> recs]
    ELSE LET p == ParseItem(raw[i], default_ttl)
         IN  ParseSkipping(raw, i + 1,
                 IF p.err # "none" THEN recs ELSE Append(recs, p.rec),
                 default_ttl)

ParseRecordsLenient(raw, default_ttl) == ParseSkipping(raw, 1, <<>>, default_ttl)

ParseRecords(raw, default_ttl) == ParseFrom(raw, 1, <<>>, default_ttl)

\* IndexKey, had line 109 keyed on the name as written
IndexKeyAsWritten(rec) == <<rec.name, rec.rtype>>

\* Config.load, lines 107-109: index.setdefault(key, []).append(rec)
IndexKey(rec) == <<Lower(rec.name), rec.rtype>>

RECURSIVE BuildFrom(_, _, _)
BuildFrom(recs, i, index) ==
    IF i > Len(recs)
    THEN index
    ELSE LET key == IndexKey(recs[i])
             old == IF key \in DOMAIN index THEN index[key] ELSE <<>>
         IN  BuildFrom(recs, i + 1,
                 [k \in DOMAIN index \cup {key} |->
                     IF k = key THEN Append(old, recs[i]) ELSE index[k]])

BuildIndex(recs) == BuildFrom(recs, 1, <<>>)

(***************************************************************************)
(* The configuration source as os.stat / open / yaml.safe_load see it.     *)
(*   source = [exists |-> FALSE]  or  [exists |-> TRUE, mtime, doc]        *)
(*   doc    = [kind |-> "oserror"]     open() or read() raises OSError      *)
(*            [kind |-> "yamlerror"]   safe_load raises yaml.YAMLError      *)
(*            [kind |-> "value", data |-> v]  the decoded top-level value   *)
(* A decoded mapping is [tag |-> "map"] plus the keys it has; a list is     *)
(* [tag |-> "list", l |-> <<...>>]; scalars are IntV, StrV, NullV.          *)
(***************************************************************************)
ListV(l) == [tag |-> "list", l |-> l]

\* Python truthiness, for `yaml.safe_load(f) or {}`
Truthy(v) ==
    CASE v.tag = "null" -> FALSE
      [] v.tag = "int" -> v.n # 0
      [] v.tag = "str" -> v.s # ""
      [] v.tag = "list" -> Len(v.l) > 0
      [] OTHER -> DOMAIN v # {"tag"}

\* Config.load, line 75: yaml.safe_load(f) or {}
OrEmptyMap(v) == IF Truthy(v) THEN v ELSE [tag |-> "map"]

\* dict.get(key, default)
Get(m, key, default) == IF key \in DOMAIN m THEN m[key] ELSE default

(***************************************************************************)
(* Config.__init__, lines 46-50: the fields before the first load.         *)
(***************************************************************************)
InitialConfig ==
    [default_ttl |-> DEFAULT_TTL, records |-> <<>>, index |-> <<>>, mtime |-> 0]

\* What one call of Config.load did: the fields it left, the exception it
\* raised ("none": returned), the ValueError's message and record ordinal,
\* whether it opened the file and whether it reached lines 111-113.
LoadResult(cfg, exc, msg, ordinal, read, published) ==
    [config |-> cfg,
     outcome |-> [exc |-> exc, msg |-> msg, ordinal |-> ordinal,
                  read |-> read, published |-> published]]

\* Config.load, lines 89-103: a rejected entry raises ValueError out of the
\* loop; recs is a local, so the fields keep what they had.
RejectRecords(cfg, p) ==
    LoadResult(cfg, "ValueError", p.err, p.ordinal, TRUE, FALSE)

\* Publish, had the load left _mtime as it was
PublishUnstamped(cfg, recs, st_mtime) ==
    LoadResult([cfg EXCEPT !.records = recs, !.index = BuildIndex(recs)],
               "none", "", 0, TRUE, TRUE)

\* Config.load, lines 107-113: build the index and publish.
Publish(cfg, recs, st_mtime) ==
    LoadResult([cfg EXCEPT !.records = recs,
                           !.index = BuildIndex(recs),
                           !.mtime = st_mtime],
               "none", "", 0, TRUE, TRUE)

\* Config.load, lines 79-114: from the decoded document on.  Line 80
\* assigns self.default_ttl before the records are read.
LoadData(cfg, data, st_mtime) ==
    IF data.tag # "map"
    THEN \* line 80: data.get on a list or scalar
         LoadResult(cfg, "AttributeError", "no attribute get", 0, TRUE, FALSE)
    ELSE LET ttl == IntOf(Get(data, "default_ttl", IntV(DEFAULT_TTL)))
         IN  IF ttl.exc # "none"
             THEN LoadResult(cfg, "ValueError", "invalid default_ttl", 0, TRUE, FALSE)
             ELSE LET cfg1 == [cfg EXCEPT !.default_ttl = ttl.val]
                      raw == Get(data, "records", ListV(<<>>))
                  IN  IF raw.tag # "list"
                      THEN LoadResult(cfg1, "ValueError", "'records' must be a list",
                                      0, TRUE, FALSE)
                      ELSE LET p == ParseRecords(raw.l, cfg1.default_ttl)
                           IN  IF p.err # "none"
                               THEN RejectRecords(cfg1, p)
                               ELSE Publish(cfg1, p.recs, st_mtime)

\* Gate, had line 70 compared with < instead of <=
GateNotStrict(cfg, src, force) ==
    IF ~src.exists THEN "absent"
    ELSE IF ~force /\ src.mtime < cfg.mtime THEN "skip"
    ELSE "read"

\* Config.load, lines 63-71: stat, and the modification-time gate.
\* "absent" / "skip" / "read"
Gate(cfg, src, force) ==
    IF ~src.exists THEN "absent"
    ELSE IF ~force /\ src.mtime <= cfg.mtime THEN "skip"
    ELSE "read"

\* Config.load
Load(cfg, src, force) ==
    LET gate == Gate(cfg, src, force)
    IN  IF gate = "absent"
        THEN IF force
             THEN LoadResult(cfg, "FileNotFoundError", "", 0, FALSE, FALSE)
             ELSE LoadResult(cfg, "none", "", 0, FALSE, FALSE)
        ELSE IF gate = "skip"
        THEN LoadResult(cfg, "none", "", 0, FALSE, FALSE)
        ELSE IF src.doc.kind = "oserror"
        THEN LoadResult(cfg, "OSError", "", 0, TRUE, FALSE)
        ELSE IF src.doc.kind = "yamlerror"
        THEN LoadResult(cfg, "ValueError", "YAML parsing error", 0, TRUE, FALSE)
        ELSE LoadData(cfg, OrEmptyMap(src.doc.data), src.mtime)

\* Config.maybe_reload: the except clause catches ValueError, yaml.YAMLError
\* and OSError (FileNotFoundError is an OSError); anything else propagates.
CaughtByReload == {"ValueError", "YAMLError", "OSError", "FileNotFoundError"}

maybe_reload(cfg, src) ==
    LET r == Load(cfg, src, FALSE)
    IN  [config |-> r.config, load |-> r.outcome,
         raised |-> IF r.outcome.exc \in CaughtByReload
                    THEN "none" ELSE r.outcome.exc]

(***************************************************************************)
(* Config._to_rrs.  An RR is [rname, rtype, rdata, ttl]; rdata of a CNAME, *)
(* NS or PTR is the text of its DNSLabel.                                  *)
(***************************************************************************)
RR(rname, rtype, rdata, ttl) ==
    [rname |-> rname, rtype |-> rtype, rdata |-> rdata, ttl |-> ttl]

\* RR(..., ttl=rec.ttl): dnslib keeps ttl in an unsigned 32-bit field and
\* rejects any other value with a ValueError (the upper limit, 2^32 - 1, is
\* above every ttl of the inputs)
TtlOK(ttl) == ttl >= 0

\* BuildRR, had a record with a malformed value been built all the same
BuildRRUnchecked(rec, rtype) ==
    <<RR(LabelStr(rec.name), rtype, rec.value, rec.ttl)>>

\* lines 142-162: the try block for one record; <<>> when the record is
\* skipped by one of the except clauses
BuildRR(rec, rtype) ==
    LET label == LabelStr(rec.name)
    IN  IF ~TtlOK(rec.ttl)
        THEN <<>>
        ELSE CASE rtype = "A" ->
                    IF IsIPv4(rec.value)
                    THEN <<RR(label, "A", rec.value, rec.ttl)>> ELSE <<>>
               [] rtype = "AAAA" ->
                    IF IsIPv6(rec.value)
                    THEN <<RR(label, "AAAA", rec.value, rec.ttl)>> ELSE <<>>
               [] rtype \in {"CNAME", "NS", "PTR"} ->
                    IF LabelOK(rec.value)
                    THEN <<RR(label, rtype, LabelStr(rec.value), rec.ttl)>>
                    ELSE <<>>
               [] rtype = "TXT" -> <<RR(label, "TXT", rec.value, rec.ttl)>>
               [] OTHER -> <<>>

\* lines 139-163: the loop; DNSLabel(rec.name) on line 141 is outside the try
RECURSIVE RRsFrom(_, _, _, _)
RRsFrom(bucket, i, rtype, out) ==
    IF i > Len(bucket)
    THEN [exc |-> "none", out |-> out]
    ELSE IF ~LabelOK(bucket[i].name)
    THEN [exc |-> "UnicodeError", out |-> <<>>]
    ELSE RRsFrom(bucket, i + 1, rtype, out \o BuildRR(bucket[i], rtype))

to_rrs(index, name_lc, rtype) ==
    RRsFrom(Get(index, <<name_lc, rtype>>, <<>>), 1, rtype, <<>>)

(***************************************************************************)
(* Config.lookup.  qname is the text of the queried DNSLabel, qtype the   *)
(* QTYPE name ("ANY", a supported type, or another type such as "MX").     *)
(* Result: [exc, answers, additionals].                                    *)
(***************************************************************************)
LookupResult(exc, answers, additionals) ==
    [exc |-> exc, answers |-> answers, additionals |-> additionals]

\* lines 180-181: for t in SUPPORTED_ORDER: answers.extend(self._to_rrs(name, t))
RECURSIVE AnyFrom(_, _, _, _)
AnyFrom(index, name, i, answers) ==
    IF i > Len(SUPPORTED_ORDER)
    THEN [exc |-> "none", out |-> answers]
    ELSE LET r == to_rrs(index, name, SUPPORTED_ORDER[i])
         IN  IF r.exc # "none"
             THEN r
             ELSE AnyFrom(index, name, i + 1, answers \o r.out)

\* Chase, had the AAAA records been put before the A records
ChaseAAAAFirst(index, answers, cname_rr) ==
    LET target == Lower(cname_rr.rdata)
        a == to_rrs(index, target, "A")
        aaaa == to_rrs(index, target, "AAAA")
    IN  LookupResult("none", answers, aaaa.out \o a.out)

\* Chase, had the target been used as written, without .lower()
ChaseAsWritten(index, answers, cname_rr) ==
    LET a == to_rrs(index, cname_rr.rdata, "A")
        aaaa == to_rrs(index, cname_rr.rdata, "AAAA")
    IN  LookupResult("none", answers, a.out \o aaaa.out)

\* Chase, had it gone on through the first CNAME of the target
ChaseThrough(index, answers, cname_rr) ==
    LET target == Lower(cname_rr.rdata)
        a == to_rrs(index, target, "A")
        aaaa == to_rrs(index, target, "AAAA")
        next == to_rrs(index, target, "CNAME")
        more == IF Len(next.out) > 0
                THEN to_rrs(index, Lower(next.out[1].rdata), "A").out
                     \o to_rrs(index, Lower(next.out[1].rdata), "AAAA").out
                ELSE <<>>
    IN  LookupResult("none", answers, a.out \o aaaa.out \o more)

\* lines 184-186 and 197-199: the A then AAAA records of the CNAME target
Chase(index, answers, cname_rr) ==
    LET target == Lower(cname_rr.rdata)
        a == to_rrs(index, target, "A")
        aaaa == to_rrs(index, target, "AAAA")
    IN  IF a.exc # "none"
        THEN LookupResult(a.exc, <<>>, <<>>)
        ELSE IF aaaa.exc # "none"
        THEN LookupResult(aaaa.exc, <<>>, <<>>)
        ELSE LookupResult("none", answers, a.out \o aaaa.out)

IsCNAME(rr) == rr.rtype = "CNAME"

\* LookupAny, had the chase followed the last CNAME of the answers
LookupAnyLastCname(index, name) ==
    LET r == AnyFrom(index, name, 1, <<>>)
    IN  IF r.exc # "none"
        THEN LookupResult(r.exc, <<>>, <<>>)
        ELSE LET cnames == SelectSeq(r.out, IsCNAME)
             IN  IF Len(cnames) > 0
                 THEN Chase(index, r.out, cnames[Len(cnames)])
                 ELSE LookupResult("none", r.out, <<>>)

\* lines 179-187
LookupAny(index, name) ==
    LET r == AnyFrom(index, name, 1, <<>>)
    IN  IF r.exc # "none"
        THEN LookupResult(r.exc, <<>>, <<>>)
        ELSE LET cnames == SelectSeq(r.out, IsCNAME)
             IN  IF Len(cnames) > 0
                 THEN Chase(index, r.out, cnames[1])
                 ELSE LookupResult("none", r.out, <<>>)

\* lines 189-201
LookupTyped(index, name, qtype) ==
    LET direct == IF qtype \in SUPPORTED_QTYPES
                  THEN to_rrs(index, name, qtype)
                  ELSE [exc |-> "none", out |-> <<>>]
    IN  IF direct.exc # "none"
        THEN LookupResult(direct.exc, <<>>, <<>>)
        ELSE IF Len(direct.out) > 0
        THEN LookupResult("none", direct.out, <<>>)
        ELSE LET cname_rrs == to_rrs(index, name, "CNAME")
             IN  IF cname_rrs.exc # "none"
                 THEN LookupResult(cname_rrs.exc, <<>>, <<>>)
                 ELSE IF Len(cname_rrs.out) > 0
                 THEN Chase(index, cname_rrs.out, cname_rrs.out[1])
                 ELSE LookupResult("none", <<>>, <<>>)

lookup(index, qname, qtype) ==
    LET name == Lower(qname)
    IN  IF qtype = "ANY"
        THEN LookupAny(index, name)
        ELSE LookupTyped(index, name, qtype)

(***************************************************************************)
(* DNSUDPProtocol.datagram_received, lines 62-80: the reply built from    *)
(* lookup's result r.  [sent |-> FALSE]: the handler ended (an exception, *)
(* or an unparsable datagram) without sending.                             *)
(***************************************************************************)
NoReply == [sent |-> FALSE]

\* ReplyTo, had the reply carried NOERROR whatever the answers
ReplyAlwaysNoError(r) ==
    IF r.exc # "none"
    THEN NoReply
    ELSE [sent |-> TRUE, rcode |-> "NOERROR",
          rr |-> r.answers, ar |-> r.additionals]

\* lines 62-80
ReplyTo(r) ==
    IF r.exc # "none"
    THEN NoReply
    ELSE IF Len(r.answers) > 0
    THEN [sent |-> TRUE, rcode |-> "NOERROR",
          rr |-> r.answers, ar |-> r.additionals]
    ELSE [sent |-> TRUE, rcode |-> "NXDOMAIN", rr |-> <<>>, ar |-> <<>>]

(***************************************************************************)
(* Config.lookup as the steps a concurrent thread can interleave with:    *)
(* each step is one call of _to_rrs, which reads self.index (line 140).   *)
(* call is the lookup in progress: the query, the index published when    *)
(* the call started, the types still to fetch for the answers, whether    *)
(* the typed query has fallen back to the CNAME bucket, and the lists      *)
(* built so far.                                                           *)
(***************************************************************************)
Idle == [pc |-> "idle"]

\* lines 175-177 (and 189-190: a type outside SUPPORTED_QTYPES has no direct
\* bucket, the first fetch is the CNAME one)
CallStart(index, data) ==
    [pc |-> "answers", data |-> data, start |-> index,
     types |-> IF data.qtype = "ANY" THEN SUPPORTED_ORDER
               ELSE IF data.qtype \in SUPPORTED_QTYPES THEN <<data.qtype>>
               ELSE <<"CNAME">>,
     fellback |-> (data.qtype # "ANY" /\ data.qtype \notin SUPPORTED_QTYPES),
     target |-> "", answers |-> <<>>, additionals |-> <<>>]

\* One _to_rrs call of the lookup c, reading self.index as it is at that
\* moment.  Yields [done, call, result].
CallStep(c, index) ==
    LET Return(res) == [done |-> TRUE, call |-> Idle, result |-> res]
        Go(c2) == [done |-> FALSE, call |-> c2,
                   result |-> LookupResult("none", <<>>, <<>>)]
        Raise(e) == Return(LookupResult(e, <<>>, <<>>))
        name == Lower(c.data.qname)
    IN  CASE c.pc = "answers" ->
               LET r == to_rrs(index, name, Head(c.types))
                   ans == c.answers \o r.out
                   rest == Tail(c.types)
                   cnames == SelectSeq(ans, IsCNAME)
               IN  IF r.exc # "none" THEN Raise(r.exc)
                   ELSE IF rest # <<>>
                   THEN Go([c EXCEPT !.answers = ans, !.types = rest])
                   ELSE IF c.data.qtype = "ANY"
                   THEN IF Len(cnames) > 0
                        THEN Go([c EXCEPT !.pc = "chaseA", !.answers = ans,
                                          !.types = rest,
                                          !.target = Lower(cnames[1].rdata)])
                        ELSE Return(LookupResult("none", ans, <<>>))
                   ELSE IF ~c.fellback
                   THEN IF Len(ans) > 0
                        THEN Return(LookupResult("none", ans, <<>>))
                        ELSE Go([c EXCEPT !.types = <<"CNAME">>,
                                          !.fellback = TRUE])
                   ELSE IF Len(ans) > 0
                        THEN Go([c EXCEPT !.pc = "chaseA", !.answers = ans,
                                          !.types = rest,
                                          !.target = Lower(ans[1].rdata)])
                        ELSE Return(LookupResult("none", <<>>, <<>>))
          [] c.pc = "chaseA" ->
               LET r == to_rrs(index, c.target, "A")
               IN  IF r.exc # "none" THEN Raise(r.exc)
                   ELSE Go([c EXCEPT !.pc = "chaseAAAA",
                                     !.additionals = r.out])
          [] c.pc = "chaseAAAA" ->
               LET r == to_rrs(index, c.target, "AAAA")
               IN  IF r.exc # "none" THEN Raise(r.exc)
                   ELSE Return(LookupResult("none", c.answers,
                                            c.additionals \o r.out))

(***************************************************************************)
(* Inputs: raw record entries and documents of the configuration source,  *)
(* and query datagrams.                                                    *)
(***************************************************************************)
SeqsUpTo(S, n) == UNION {[1..k -> S] : k \in 0..n}

MapDoc(m) == [kind |-> "value", data |-> m]

\* Entries that Config.load accepts, chosen for resolution: direct matches
\* under a name written in both cases, a malformed A value, two CNAMEs of
\* one name (one to a target written in upper case, one to the name itself)
\* and the A / AAAA records of the target.
LookupItems ==
    { [name |-> "a.", type |-> "A", value |-> "1.2.3.4"],
      [name |-> "A.", type |-> "AAAA", value |-> "::1", ttl |-> IntV(60)],
      [name |-> "a.", type |-> "A", value |-> "not-an-ip", ttl |-> IntV(60)],
      [name |-> "a.", type |-> "CNAME", value |-> "T.", ttl |-> IntV(60)],
      [name |-> "a.", type |-> "CNAME", value |-> "a.", ttl |-> IntV(60)],
      [name |-> "t.", type |-> "A", value |-> "5.6.7.8", ttl |-> IntV(60)],
      [name |-> "t.", type |-> "AAAA", value |-> "::1", ttl |-> IntV(60)],
      [name |-> "a.", type |-> "TXT", value |-> "hello", ttl |-> IntV(60)] }

LookupDocs == {MapDoc([tag |-> "map", records |-> ListV(l)]) :
                  l \in SeqsUpTo(LookupItems, MaxRecs)}

\* Entries that Config.load accepts, chosen for chains of CNAMEs: a CNAME
\* whose target has a CNAME to a third name and one back to the first, the
\* records of each name, and a record whose name has an empty inner label.
ChainItems ==
    { [name |-> "a.", type |-> "CNAME", value |-> "T.", ttl |-> IntV(60)],
      [name |-> "t.", type |-> "CNAME", value |-> "u.", ttl |-> IntV(60)],
      [name |-> "t.", type |-> "CNAME", value |-> "a.", ttl |-> IntV(60)],
      [name |-> "u.", type |-> "A", value |-> "1.2.3.4", ttl |-> IntV(60)],
      [name |-> "a.", type |-> "AAAA", value |-> "::1", ttl |-> IntV(60)],
      [name |-> "t.", type |-> "A", value |-> "5.6.7.8", ttl |-> IntV(60)],
      [name |-> "A..B.", type |-> "A", value |-> "1.2.3.4", ttl |-> IntV(60)] }

ChainDocs == {MapDoc([tag |-> "map", records |-> ListV(l)]) :
                 l \in SeqsUpTo(ChainItems, MaxRecs)}

\* Entries chosen for parsing: accepted ones (padded name and lower-case
\* type, explicit, negative and textual ttl) and one of each rejected shape.
LoadItems ==
    { [name |-> " a. ", type |-> "a", value |-> "1.2.3.4"],
      [name |-> "a.", type |-> "cname", value |-> "t.", ttl |-> IntV(60)],
      [name |-> "A.", type |-> "A", value |-> "5.6.7.8", ttl |-> IntV(-1)],
      [name |-> "t.", type |-> "AAAA", value |-> "::1", ttl |-> StrV("60")],
      [scalar |-> "junk"],
      [name |-> "a.", type |-> "A"],
      [name |-> "a", type |-> "A", value |-> "1.2.3.4"],
      [name |-> "a.", type |-> "MX", value |-> "10 t."],
      [name |-> "a.", type |-> "A", value |-> "1.2.3.4", ttl |-> StrV("abc")] }

LoadDocs ==
    {MapDoc([tag |-> "map", records |-> ListV(l)]) :
        l \in SeqsUpTo(LoadItems, MaxRecs)}
    \cup
    {MapDoc([tag |-> "map", default_ttl |-> IntV(-1), records |-> ListV(l)]) :
        l \in SeqsUpTo(LoadItems, MaxRecs)}

\* Documents an editor leaves in the source while the server runs: valid
\* ones, and one of each way a load fails.
EditItemA == [name |-> "a.", type |-> "A", value |-> "1.2.3.4"]
EditItemB == [name |-> "A.", type |-> "AAAA", value |-> "::1", ttl |-> IntV(60)]
EditItemBad == [name |-> "a", type |-> "A", value |-> "1.2.3.4"]

EditDocs ==
    { MapDoc([tag |-> "map", records |-> ListV(<<EditItemA>>)]),
      MapDoc([tag |-> "map", default_ttl |-> IntV(60),
              records |-> ListV(<<EditItemA, EditItemB>>)]),
      MapDoc(NullV),
      [kind |-> "oserror"],
      [kind |-> "yamlerror"],
      MapDoc(ListV(<<StrV("x")>>)),
      MapDoc([tag |-> "map", default_ttl |-> StrV("abc"),
              records |-> ListV(<<EditItemA>>)]),
      MapDoc([tag |-> "map", default_ttl |-> IntV(60), records |-> StrV("x")]),
      MapDoc([tag |-> "map", default_ttl |-> IntV(60),
              records |-> ListV(<<EditItemB, EditItemBad>>)]) }

\* Documents for the source rewritten under a lookup in progress: two valid
\* ones that give the CNAME target different address records.
ThreadDocs ==
    { MapDoc([tag |-> "map", records |->
                ListV(<<[name |-> "a.", type |-> "CNAME", value |-> "T.",
                         ttl |-> IntV(60)],
                        [name |-> "t.", type |-> "A", value |-> "5.6.7.8",
                         ttl |-> IntV(60)]>>)]),
      MapDoc([tag |-> "map", records |->
                ListV(<<[name |-> "t.", type |-> "AAAA", value |-> "::1",
                         ttl |-> IntV(60)],
                        [name |-> "a.", type |-> "A", value |-> "1.2.3.4"]>>)]) }

File(doc, t) == [exists |-> TRUE, mtime |-> t, doc |-> doc]
NoFile == [exists |-> FALSE]

\* A datagram: bytes DNSRecord.parse rejects, or a query (qname, qtype).
\* One query is for a name whose text has an empty inner label (a question
\* whose labels are "a", "" and "b", or, where str() joins the raw labels,
\* "a." and "b").
QNames == {"a.", "A."}
QTypes == {"A", "AAAA", "CNAME", "TXT", "ANY", "MX"}
Datagrams ==
    {[ok |-> FALSE], [ok |-> TRUE, qname |-> "a..b.", qtype |-> "A"]}
    \cup {[ok |-> TRUE, qname |-> n, qtype |-> t] : n \in QNames, t \in QTypes}

(***************************************************************************)
(* Actions.                                                                *)
(***************************************************************************)
\* Startup, had serve caught the load error and gone on to bind the socket
StartupLenient ==
    /\ phase = "init"
    /\ LET r == Load(config, source, TRUE)
       IN  /\ config' = r.config
           /\ phase' = "serving"
           /\ last' = [op |-> "startup", load |-> r.outcome]
    /\ UNCHANGED <<source, call>>

\* server.serve, lines 33-40: Config(config_path) runs load(force=True); an
\* exception leaves serve before create_datagram_endpoint.
Startup ==
    /\ phase = "init"
    /\ LET r == Load(config, source, TRUE)
       IN  /\ config' = r.config
           /\ phase' = IF r.outcome.exc = "none" THEN "serving" ELSE "crashed"
           /\ last' = [op |-> "startup", load |-> r.outcome]
    /\ UNCHANGED <<source, call>>

\* The environment rewrites the source; the file system stamps it.
SourceWrite ==
    /\ phase = "serving"
    /\ \E doc \in EditDocs, t \in 1..MaxTime : source' = File(doc, t)
    /\ UNCHANGED <<phase, config, last, call>>

\* The environment removes the source.
SourceRemove ==
    /\ phase = "serving"
    /\ source.exists
    /\ source' = NoFile
    /\ UNCHANGED <<phase, config, last, call>>

\* The load of the handler run before this one failed and this one published.
Recovered(load) ==
    /\ load.published
    /\ last.op = "datagram"
    /\ last.load.exc # "none"

\* HandleDatagram, had the query been resolved before the reload
HandleDatagramStale(data) ==
    LET m == maybe_reload(config, source)
        r == IF m.raised = "none" /\ data.ok
             THEN lookup(config.index, data.qname, data.qtype)
             ELSE [exc |-> "not called"]
    IN  /\ config' = m.config
        /\ last' = [op |-> "datagram", load |-> m.load, raised |-> m.raised,
                    recovered |-> Recovered(m.load),
                    data |-> data, lookup |-> r, reply |-> ReplyTo(r)]

\* DNSUDPProtocol.datagram_received.  last keeps what the handler did:
\* the outcome of the reload, whether it recovered from a failed one, the
\* datagram, lookup's result and the reply.
HandleDatagram(data) ==
    LET m == maybe_reload(config, source)
        r == IF m.raised = "none" /\ data.ok
             THEN lookup(m.config.index, data.qname, data.qtype)
             ELSE [exc |-> "not called"]
    IN  /\ config' = m.config
        /\ last' = [op |-> "datagram", load |-> m.load, raised |-> m.raised,
                    recovered |-> Recovered(m.load),
                    data |-> data, lookup |-> r, reply |-> ReplyTo(r)]

Datagram ==
    /\ phase = "serving"
    /\ \E data \in Datagrams : HandleDatagram(data)
    /\ UNCHANGED <<phase, source, call>>

\* The environment rewrites the source with one of ThreadDocs.
ThreadWrite ==
    /\ phase = "serving"
    /\ \E doc \in ThreadDocs, t \in 1..MaxTime : source' = File(doc, t)
    /\ UNCHANGED <<phase, config, last, call>>

\* The reload thread of the threaded variant calls maybe_reload.
BackgroundReload ==
    /\ phase = "serving"
    /\ config' = maybe_reload(config, source).config
    /\ UNCHANGED <<phase, source, last, call>>

\* The step s of a lookup of the query data that started on the index start:
\* the lookup goes on, or returns and leaves its result in last.
Advance(s, data, start) ==
    /\ call' = s.call
    /\ last' = IF s.done
               THEN [op |-> "lookup", data |-> data, start |-> start,
                     lookup |-> s.result]
               ELSE last

\* A resolution thread enters Config.lookup and makes its first _to_rrs call.
LookupBegin ==
    /\ phase = "serving"
    /\ call = Idle
    /\ \E data \in Datagrams :
          /\ data.ok
          /\ Advance(CallStep(CallStart(config.index, data), config.index),
                     data, config.index)
    /\ UNCHANGED <<phase, source, config>>

\* The resolution thread makes its next _to_rrs call, and returns after the
\* last one.
LookupStep ==
    /\ phase = "serving"
    /\ call # Idle
    /\ Advance(CallStep(call, config.index), call.data, call.start)
    /\ UNCHANGED <<phase, source, config>>

InitFrom(docs, times) ==
    /\ phase = "init"
    /\ source \in {NoFile} \cup {File(doc, t) : doc \in docs, t \in times}
    /\ config = InitialConfig
    /\ last = [op |-> "none"]
    /\ call = Idle

\* The server with its source edited while it runs.
Init == InitFrom(EditDocs, 1..MaxTime)
Next == Startup \/ SourceWrite \/ SourceRemove \/ Datagram
Spec == Init /\ [][Next]_vars

\* The server over a source that stays as it was at startup.
NextFixed == Startup \/ Datagram
InitLoad == InitFrom(LoadDocs, {1})
SpecLoad == InitLoad /\ [][NextFixed]_vars
InitLookup == InitFrom(LookupDocs, {1})
SpecLookup == InitLookup /\ [][NextFixed]_vars
InitChain == InitFrom(ChainDocs, {1})
SpecChain == InitChain /\ [][NextFixed]_vars

\* The threaded variant: reload runs beside the lookups.
InitThread == InitFrom(ThreadDocs, {1})
NextThread ==
    Startup \/ ThreadWrite \/ BackgroundReload \/ LookupBegin \/ LookupStep
SpecThread == InitThread /\ [][NextThread]_vars

(***************************************************************************)
(* Properties of reload and startup (specification Spec).                  *)
(***************************************************************************)
\* A document that a load accepts whatever the fields held before.
ValidDoc(doc) == Load(InitialConfig, File(doc, 1), TRUE).outcome.exc = "none"

\* The steps of Next that are a Datagram, and those that are a Startup: the
\* only steps that leave the source and run a handler.
DatagramStep == phase = "serving" /\ source' = source /\ last'.op = "datagram"
StartupStep == phase = "init" /\ last'.op = "startup"

\* The non-forced load of this step failed: it raised, or found no source.
ReloadFailed == ~source.exists \/ last'.load.exc # "none"

\* C1: when the non-forced reload of a datagram fails for any reason, the
\* records, the index and the stored modification time are what they were
\* before the attempt, and the query of that datagram is answered from the
\* snapshot held before it.
C1_FailedReloadStillAnswers ==
    [][(DatagramStep /\ ReloadFailed) =>
          /\ config'.records = config.records
          /\ config'.index = config.index
          /\ config'.mtime = config.mtime
          /\ last'.data.ok =>
                /\ last'.reply.sent
                /\ last'.lookup = lookup(config.index, last'.data.qname,
                                         last'.data.qtype)]_vars

\* C1, the part that holds of every failure: records, index and the stored
\* modification time are untouched, and a query that is answered is answered
\* from the snapshot held before the attempt.
C1_FailedReloadKeepsSnapshot ==
    [][(DatagramStep /\ ReloadFailed) =>
          /\ config'.records = config.records
          /\ config'.index = config.index
          /\ config'.mtime = config.mtime
          /\ (last'.raised = "none" /\ last'.data.ok) =>
                last'.lookup = lookup(config.index, last'.data.qname,
                                      last'.data.qtype)]_vars

\* C2: maybe_reload returns normally to datagram_received for every state of
\* the source.
C2_ReloadNeverRaises == last.op = "datagram" => last.raised = "none"

\* C3: default_ttl, records, index and the stored modification time are
\* replaced together or not at all: a reload that does not publish leaves
\* all four, default_ttl included, as they were.
C3_MetadataReplacedTogether ==
    [][(DatagramStep /\ ~last'.load.published) => config' = config]_vars

\* C4: a failed forced load at startup is fatal: the server ends without an
\* endpoint, it serves only after a load has published a snapshot, and
\* datagrams are handled only by a serving server.
C4_FailedStartupIsFatal ==
    [][/\ (StartupStep /\ last'.load.exc # "none" => phase' = "crashed")
       /\ (phase' = "serving" => phase = "serving" \/ last'.load.published)
       /\ (last'.op = "datagram" => phase' = "serving")
       /\ (phase = "crashed" => phase' = "crashed")]_vars

\* C4 witness: startup over a source whose records are rejected.
C4_Witness ==
    /\ phase = "crashed"
    /\ last.op = "startup"
    /\ last.load.exc = "ValueError"
    /\ last.load.ordinal = 2

\* C5: a non-forced load reads the source if and only if it exists with a
\* modification time strictly greater than the stored one, and publishes
\* only then (always then, when the document is valid, storing that time);
\* at a time less than or equal to the stored one nothing is read or
\* rebuilt and every field is unchanged.
C5_ReloadOnlyWhenNewer ==
    [][DatagramStep =>
          LET newer == source.exists /\ source.mtime > config.mtime
          IN  /\ last'.load.read <=> newer
              /\ last'.load.published => newer
              /\ (newer /\ ValidDoc(source.doc)) =>
                    (last'.load.published /\ config'.mtime = source.mtime)
              /\ (source.exists /\ ~newer) =>
                    (config' = config /\ ~last'.load.published
                     /\ last'.load.exc = "none")]_vars

\* C5 witness: a datagram that found a valid source stamped exactly with the
\* stored modification time, holding other records than the snapshot.
C5_Witness ==
    /\ last.op = "datagram"
    /\ ~last.load.read
    /\ source.exists
    /\ source.mtime = config.mtime
    /\ ValidDoc(source.doc)
    /\ Len(config.records) = 1
    /\ source.doc = MapDoc([tag |-> "map", default_ttl |-> IntV(60),
                            records |-> ListV(<<EditItemA, EditItemB>>)])

(***************************************************************************)
(* Properties of parsing and indexing (specification SpecLoad).            *)
(***************************************************************************)
\* The records of recs stored under (lowercased name n, type t), in order.
StoredUnder(recs, n, t) ==
    LET Match(rec) == Lower(rec.name) = n /\ rec.rtype = t
    IN  SelectSeq(recs, Match)

\* The lowercased names of the alphabet.
IndexNames == {"a.", "t."}

\* C6: for every name and supported type the index bucket of (lowercased
\* name, type) holds exactly the loaded records with that lowercased name
\* and type, in file order; the index has no other key and no empty bucket,
\* so a key without a matching record yields the empty sequence; query
\* names that differ only in letter case resolve alike.
C6_IndexMatchesRecords ==
    /\ \A n \in IndexNames, t \in SUPPORTED_QTYPES :
          Get(config.index, <<n, t>>, <<>>) = StoredUnder(config.records, n, t)
    /\ \A k \in DOMAIN config.index :
          /\ k[1] \in IndexNames
          /\ k[2] \in SUPPORTED_QTYPES
          /\ Len(config.index[k]) > 0
    /\ \A t \in QTypes :
          lookup(config.index, "A.", t) = lookup(config.index, "a.", t)

\* C6 witness: a published bucket of two records whose names are written in
\* different cases, with a record of another bucket between them in the file.
C6_Witness ==
    /\ phase = "serving"
    /\ Len(config.records) = 3
    /\ config.records[1].name = "a."
    /\ config.records[3].name = "A."
    /\ Get(config.index, <<"a.", "A">>, <<>>)
          = <<config.records[1], config.records[3]>>

\* An entry the load must reject: not a mapping, a missing name, type or
\* value, a ttl that is no integer, a name without the final '.', a type
\* outside the supported ones.
RejectedEntry(item) ==
    \/ ~IsMapping(item)
    \/ {"name", "type", "value"} \ DOMAIN item # {}
    \/ /\ "ttl" \in DOMAIN item
       /\ ~(item.ttl.tag = "int" \/ (item.ttl.tag = "str" /\ item.ttl.s = "60"))
    \/ ~EndsWithDot(Strip(item.name))
    \/ Strip(Upper(item.type)) \notin SUPPORTED_QTYPES

\* C7: if any entry of the records list is rejected, the load fails with a
\* ValueError citing the 1-based ordinal of the first rejected entry in file
\* order, and no record of the batch is published, the valid entries before
\* the rejected one included; if none is rejected, every entry is published.
C7_RejectsWholeBatch ==
    (last.op = "startup" /\ source.exists) =>
        LET raw == source.doc.data.records.l
            bad == {i \in 1..Len(raw) : RejectedEntry(raw[i])}
        IN  IF bad # {}
            THEN /\ last.load.exc = "ValueError"
                 /\ last.load.ordinal = CHOOSE i \in bad : \A j \in bad : i <= j
                 /\ ~last.load.published
                 /\ config.records = <<>>
                 /\ DOMAIN config.index = {}
                 /\ phase = "crashed"
            ELSE /\ last.load.published
                 /\ Len(config.records) = Len(raw)

\* C7 witness: two accepted entries, then an entry of an unsupported type.
C7_Witness ==
    /\ last.op = "startup"
    /\ last.load.msg = "unsupported type"
    /\ last.load.ordinal = 3
    /\ config.records = <<>>

\* C8: every record of a published snapshot has ttl >= 0 (an entry whose ttl,
\* written or inherited from default_ttl, is negative is rejected).
C8_PublishedTtlNonNegative ==
    \A i \in 1..Len(config.records) : config.records[i].ttl >= 0

(***************************************************************************)
(* Properties of resolution (specification SpecLookup).                    *)
(***************************************************************************)
\* The value of a record is valid for its type and its ttl fits the wire.
WellFormed(rec) ==
    /\ ~(rec.ttl < 0)
    /\ CASE rec.rtype = "A" -> IsIPv4(rec.value)
         [] rec.rtype = "AAAA" -> IsIPv6(rec.value)
         [] rec.rtype \in {"CNAME", "NS", "PTR"} -> LabelOK(rec.value)
         [] OTHER -> TRUE

\* The resource record of a well-formed record.
AsRR(rec) ==
    RR(LabelStr(rec.name), rec.rtype,
       IF rec.rtype \in {"CNAME", "NS", "PTR"} THEN LabelStr(rec.value)
                                                  ELSE rec.value,
       rec.ttl)

\* The resource records of the well-formed records of the snapshot stored
\* under (n, t), in file order.
BuiltFrom(recs, n, t) ==
    LET ok == SelectSeq(StoredUnder(recs, n, t), WellFormed)
    IN  [i \in 1..Len(ok) |-> AsRR(ok[i])]

\* The last handler run resolved a query and lookup returned.
Resolved ==
    /\ last.op = "datagram"
    /\ last.raised = "none"
    /\ last.data.ok
    /\ last.lookup.exc = "none"

\* A typed query under whose (name, type) the snapshot stores nothing.
TypedWithoutDirect ==
    /\ Resolved
    /\ last.data.qtype # "ANY"
    /\ \/ last.data.qtype \notin SUPPORTED_QTYPES
       \/ StoredUnder(config.records, Lower(last.data.qname), last.data.qtype) = <<>>

\* C9 as stated: with no direct match and a CNAME stored for qname, the
\* answer set has exactly one entry, that CNAME, and the additionals are the
\* A then the AAAA records under the lowercased target.
C9_SingleCnameAnswer ==
    LET n == Lower(last.data.qname)
        cnames == StoredUnder(config.records, n, "CNAME")
        target == Lower(LabelStr(cnames[1].value))
    IN  (TypedWithoutDirect /\ Len(cnames) > 0) =>
            /\ Len(last.lookup.answers) = 1
            /\ last.lookup.answers[1] = AsRR(cnames[1])
            /\ last.lookup.additionals =
                  BuiltFrom(config.records, target, "A")
                  \o BuiltFrom(config.records, target, "AAAA")

\* C9 amended: with no record stored under (qname, qtype) and a well-formed
\* CNAME stored for qname, the answers are all the well-formed CNAME records
\* of qname in file order, and the additionals are the well-formed A records
\* followed by the well-formed AAAA records stored under the lowercased
\* target of the first of those CNAMEs, each in file order.
C9_CnameFallback ==
    LET n == Lower(last.data.qname)
        cnames == SelectSeq(StoredUnder(config.records, n, "CNAME"), WellFormed)
        target == Lower(LabelStr(cnames[1].value))
    IN  (TypedWithoutDirect /\ Len(cnames) > 0) =>
            /\ last.lookup.answers = BuiltFrom(config.records, n, "CNAME")
            /\ last.lookup.additionals =
                  BuiltFrom(config.records, target, "A")
                  \o BuiltFrom(config.records, target, "AAAA")

\* C9 witness: a typed query answered with one CNAME whose target is written
\* in upper case, and with the A then the AAAA record of the target.
C9_Witness ==
    /\ TypedWithoutDirect
    /\ last.data.qtype = "A"
    /\ Len(last.lookup.answers) = 1
    /\ last.lookup.answers[1].rtype = "CNAME"
    /\ last.lookup.answers[1].rdata = "T."
    /\ Len(last.lookup.additionals) = 2
    /\ last.lookup.additionals[1].rtype = "A"
    /\ last.lookup.additionals[2].rtype = "AAAA"
    /\ config.records[1].rtype = "AAAA"

\* C10: the answers of an ANY query are the records built from the buckets
\* of the name taken in the order A, AAAA, CNAME, TXT, NS, PTR, each bucket
\* in file order; they depend on the snapshot and the query alone.
C10_AnyOrder ==
    LET n == Lower(last.data.qname)
        B(t) == BuiltFrom(config.records, n, t)
    IN  (Resolved /\ last.data.qtype = "ANY") =>
            last.lookup.answers =
                B("A") \o B("AAAA") \o B("CNAME") \o B("TXT") \o B("NS") \o B("PTR")

\* C10 witness: an ANY query answered TXT-last from a file that lists the
\* TXT record first and the A record last.
C10_Witness ==
    /\ Resolved
    /\ last.data.qtype = "ANY"
    /\ Len(config.records) = 3
    /\ config.records[1].rtype = "TXT"
    /\ config.records[3].rtype = "A"
    /\ Len(last.lookup.answers) = 3
    /\ last.lookup.answers[1].rtype = "A"
    /\ last.lookup.answers[2].rtype = "CNAME"
    /\ last.lookup.answers[3].rtype = "TXT"

\* A typed query for a supported type that lookup resolved.
TypedQuery ==
    /\ Resolved
    /\ last.data.qtype \in SUPPORTED_QTYPES

\* C11: a typed query whose bucket holds both a well-formed and a malformed
\* record is answered with exactly the well-formed records of that bucket, in
\* file order, and with no additionals.
C11_SkipMalformed ==
    LET bucket == StoredUnder(config.records, Lower(last.data.qname),
                              last.data.qtype)
    IN  (/\ TypedQuery
         /\ \E i \in 1..Len(bucket) : WellFormed(bucket[i])
         /\ \E i \in 1..Len(bucket) : ~WellFormed(bucket[i]))
        => /\ last.lookup.answers =
                 BuiltFrom(config.records, Lower(last.data.qname),
                           last.data.qtype)
           /\ last.lookup.additionals = <<>>

\* C11 witness: an A query on a file that lists a malformed A record, a valid
\* one and a CNAME of the same name, answered with the one valid record.
C11_Witness ==
    /\ TypedQuery
    /\ last.data.qtype = "A"
    /\ Len(config.records) = 3
    /\ config.records[1].value = "not-an-ip"
    /\ config.records[2].value = "1.2.3.4"
    /\ config.records[3].rtype = "CNAME"
    /\ Len(last.lookup.answers) = 1
    /\ last.lookup.answers[1].rdata = "1.2.3.4"
    /\ last.lookup.additionals = <<>>

(***************************************************************************)
(* Properties of resolution over chains of CNAMEs and over record names    *)
(* that are not domain names (specification SpecChain).                    *)
(***************************************************************************)
\* C12: whenever a parseable query reaches lookup, lookup returns a pair of
\* answers and additionals and the datagram is answered with a reply.
C12_LookupNeverFails ==
    (last.op = "datagram" /\ last.raised = "none" /\ last.data.ok)
        => /\ last.lookup.exc = "none"
           /\ last.reply.sent

(***************************************************************************)
(* Properties of the result and of the reply (specification SpecLookup).   *)
(***************************************************************************)
\* C13: a query for a name that has no record under (qname, qtype) and no
\* CNAME gets empty answers and empty additionals; the reply has RCODE
\* NXDOMAIN exactly when the answers are empty, carries the answers and the
\* additionals of a non-empty result, and carries nothing of an empty one.
C13_EmptyResultAndRcode ==
    LET n == Lower(last.data.qname)
        t == last.data.qtype
        unknown == /\ StoredUnder(config.records, n, "CNAME") = <<>>
                   /\ IF t = "ANY"
                      THEN \A u \in SUPPORTED_QTYPES :
                              StoredUnder(config.records, n, u) = <<>>
                      ELSE \/ t \notin SUPPORTED_QTYPES
                           \/ StoredUnder(config.records, n, t) = <<>>
    IN  Resolved =>
           /\ unknown => /\ last.lookup.answers = <<>>
                         /\ last.lookup.additionals = <<>>
           /\ last.reply.sent
           /\ (last.reply.rcode = "NXDOMAIN") <=> (last.lookup.answers = <<>>)
           /\ last.reply.rcode \in {"NXDOMAIN", "NOERROR"}
           /\ last.reply.rr = last.lookup.answers
           /\ last.reply.ar = IF last.lookup.answers = <<>>
                              THEN <<>> ELSE last.lookup.additionals

\* C13 witness: a query for the AAAA record of a name that has only an A
\* record and no CNAME, answered NXDOMAIN with empty sections.
C13_Witness ==
    /\ Resolved
    /\ last.data.qtype = "AAAA"
    /\ Len(config.records) = 1
    /\ config.records[1].rtype = "A"
    /\ config.records[1].name = "a."
    /\ last.lookup.answers = <<>>
    /\ last.lookup.additionals = <<>>
    /\ last.reply.rcode = "NXDOMAIN"

(***************************************************************************)
(* Properties of the threaded variant (specification SpecThread).          *)
(***************************************************************************)
\* C14: every lookup that returns has computed its answers and additionals
\* from the one snapshot that was published when the call started.
C14_OneSnapshotPerLookup ==
    last.op = "lookup" =>
        last.lookup = lookup(last.start, last.data.qname, last.data.qtype)

(***************************************************************************)
(* Properties of the CNAME fallback and chase (specification SpecLookup).  *)
(***************************************************************************)
\* C15: a typed query under whose (lowercased name, type) the snapshot
\* stores at least one record, well-formed or not, gets no additionals and,
\* unless it asks for CNAME itself, no CNAME answer.
C15_FallbackOnlyWithoutDirect ==
    LET bucket == StoredUnder(config.records, Lower(last.data.qname),
                              last.data.qtype)
    IN  (TypedQuery /\ bucket # <<>>) =>
           /\ last.lookup.additionals = <<>>
           /\ last.data.qtype # "CNAME" =>
                 \A i \in 1..Len(last.lookup.answers) :
                    last.lookup.answers[i].rtype # "CNAME"

\* C16: the answers of an ANY query are the records of every bucket of the
\* name (never the CNAME bucket alone); when they contain a CNAME, the first
\* one is the first well-formed CNAME stored for the name and the additionals
\* are the A records followed by the AAAA records under its lowercased
\* target, the targets of further CNAMEs adding nothing; when they contain
\* none, the additionals are empty.
C16_AnyChasesFirstCname ==
    LET n == Lower(last.data.qname)
        B(t) == BuiltFrom(config.records, n, t)
        got == SelectSeq(last.lookup.answers, IsCNAME)
        target == Lower(B("CNAME")[1].rdata)
    IN  (Resolved /\ last.data.qtype = "ANY") =>
           /\ Len(last.lookup.answers) =
                 Len(B("A")) + Len(B("AAAA")) + Len(B("CNAME"))
                 + Len(B("TXT")) + Len(B("NS")) + Len(B("PTR"))
           /\ got = B("CNAME")
           /\ IF got = <<>>
              THEN last.lookup.additionals = <<>>
              ELSE last.lookup.additionals =
                      BuiltFrom(config.records, target, "A")
                      \o BuiltFrom(config.records, target, "AAAA")

\* C16 witness: an ANY query for a name with two CNAMEs, the first to the
\* name itself and the second to a target that has an A record; both are
\* answers and the additionals are empty.
C16_Witness ==
    /\ Resolved
    /\ last.data.qtype = "ANY"
    /\ Len(config.records) = 3
    /\ config.records[1].rtype = "CNAME" /\ config.records[1].value = "a."
    /\ config.records[2].rtype = "CNAME" /\ config.records[2].value = "T."
    /\ config.records[3].name = "t." /\ config.records[3].rtype = "A"
    /\ Len(last.lookup.answers) = 2
    /\ last.lookup.additionals = <<>>

\* C17: lookup returns for every snapshot, with CNAME chains and cycles too,
\* after one hop at most: the additionals are the A then the AAAA records
\* under the lowercased target of the first CNAME of the answers and nothing
\* reached through a CNAME of that target, and the result never has more
\* entries than twice the records of the snapshot.
C17_OneHopChase ==
    LET cn == SelectSeq(last.lookup.answers, IsCNAME)
        target == Lower(cn[1].rdata)
    IN  (last.op = "datagram" /\ last.raised = "none" /\ last.data.ok) =>
           /\ last.lookup.exc \in {"none", "UnicodeError"}
           /\ last.lookup.exc = "none" =>
                 /\ Len(last.lookup.answers) + Len(last.lookup.additionals)
                       <= 2 * Len(config.records)
                 /\ last.lookup.additionals # <<>> =>
                       /\ cn # <<>>
                       /\ last.lookup.additionals =
                             BuiltFrom(config.records, target, "A")
                             \o BuiltFrom(config.records, target, "AAAA")

\* C17 witness: a chain a. -> t. -> u. where only u. has an address; the
\* query for a. is answered with the CNAME to t. and no additionals.
C17_Witness ==
    /\ Resolved
    /\ last.data.qtype = "A"
    /\ Len(config.records) = 3
    /\ config.records[1].name = "a." /\ config.records[1].value = "T."
    /\ config.records[2].name = "t." /\ config.records[2].value = "u."
    /\ config.records[3].name = "u." /\ config.records[3].rtype = "A"
    /\ Len(last.lookup.answers) = 1
    /\ last.lookup.answers[1].rtype = "CNAME"
    /\ last.lookup.additionals = <<>>

(***************************************************************************)
(* Properties of reload before resolution and of recovery (specification  *)
(* Spec).                                                                  *)
(***************************************************************************)
\* The snapshot a load of the source as it is now publishes.
Fresh == Load(InitialConfig, source, TRUE).config

\* The source is there, newer than the last load, and loads.
NewerAndValid ==
    /\ source.exists
    /\ source.mtime > config.mtime
    /\ ValidDoc(source.doc)

\* C18: a datagram that arrives while the source is valid and newer than the
\* last load has its query resolved on the snapshot of that source, and
\* its reply built from that result.
C18_ReloadBeforeResolve ==
    [][(DatagramStep /\ NewerAndValid /\ last'.data.ok) =>
          /\ last'.raised = "none"
          /\ last'.lookup =
                lookup(Fresh.index, last'.data.qname, last'.data.qtype)
          /\ last'.reply = ReplyTo(last'.lookup)]_vars

\* C18 witness: a datagram whose reload published the two-record document
\* and whose AAAA query is answered with the record only that document has.
C18_Witness ==
    /\ last.op = "datagram"
    /\ last.load.published
    /\ last.data.ok
    /\ last.data.qtype = "AAAA"
    /\ last.reply.sent
    /\ last.reply.rcode = "NOERROR"
    /\ Len(last.reply.rr) = 1
    /\ last.reply.rr[1].rtype = "AAAA"

\* C19: a failed load leaves the modification time T as it was; every
\* maybe_reload reads the source while it is newer than T; when the source
\* is valid and newer, that maybe_reload publishes the records and index of
\* its content and sets T to its modification time; on a source whose
\* modification time is T, maybe_reload reads nothing and changes nothing.
C19_RecoveryAfterFailedReload ==
    [][DatagramStep =>
          /\ last'.load.exc # "none" => config'.mtime = config.mtime
          /\ (source.exists /\ source.mtime > config.mtime) => last'.load.read
          /\ NewerAndValid =>
                /\ last'.load.published
                /\ config'.records = Fresh.records
                /\ config'.index = Fresh.index
                /\ config'.mtime = source.mtime
          /\ (source.exists /\ source.mtime = config.mtime) =>
                /\ ~last'.load.read
                /\ config' = config]_vars

\* C19 witness: a reload that published right after a failed one, and left T
\* at the modification time of the source.
C19_Witness ==
    /\ last.op = "datagram"
    /\ last.recovered
    /\ last.load.published
    /\ source.exists
    /\ config.mtime = source.mtime
    /\ Len(config.records) = 2

(***************************************************************************)
(* The shape of every result (specification SpecLookup).                   *)
(***************************************************************************)
\* C20: whenever lookup returns additionals, the answers hold a CNAME; every
\* additional is an A or an AAAA record, no A record comes after an AAAA
\* record, and each is a record of the one name that is the lowercased
\* target of the first CNAME of the answers.
C20_ResultShape ==
    LET ans == last.lookup.answers
        add == last.lookup.additionals
        cn == SelectSeq(ans, IsCNAME)
    IN  (Resolved /\ add # <<>>) =>
           /\ cn # <<>>
           /\ \A i \in 1..Len(add) :
                 /\ add[i].rtype \in {"A", "AAAA"}
                 /\ Lower(add[i].rname) = Lower(cn[1].rdata)
                 /\ \E j \in 1..Len(config.records) :
                       /\ add[i] = AsRR(config.records[j])
                       /\ Lower(config.records[j].name) = Lower(cn[1].rdata)
           /\ \A i, j \in 1..Len(add) :
                 (add[i].rtype = "AAAA" /\ add[j].rtype = "A") => j < i

\* C20 witness: an ANY query answered with one CNAME and, as additionals,
\* the A record and then the AAAA record of its target, which the file lists
\* in the other order.
C20_Witness ==
    /\ Resolved
    /\ last.data.qtype = "ANY"
    /\ Len(last.lookup.answers) = 1
    /\ last.lookup.answers[1].rdata = "T."
    /\ Len(last.lookup.additionals) = 2
    /\ last.lookup.additionals[1].rtype = "A"
    /\ last.lookup.additionals[2].rtype = "AAAA"
    /\ config.records[1].rtype = "AAAA"
    /\ config.records[2].rtype = "A"

====
